---- MODULE Spec2Model ----
(***************************************************************************)
(* Model of the bgl-demo scene loader: the conversion of an imported scene *)
(* into GPU resources, their ownership and release, and mesh rendering.    *)
(*                                                                         *)
(* The repository holds two revisions of the loader.  build = "bgl" is the *)
(* Qt based loader of namespace bgl (LoadModel, load_meshes, create_vbo,   *)
(* create_ibo, create_vao, calculate_bounding_box, load_materials and      *)
(* Mesh).  build = "gfx" is the raw OpenGL loader of gfx.cpp (LoadModel,   *)
(* create_buffer, create_vbo, create_ibo, create_vao, render_model).  A    *)
(* behaviour is a run of one build; ndebug tells whether assert() is       *)
(* compiled out; files is what the file system holds.                      *)
(*                                                                         *)
(* Floats are fixed point numbers with 1.0 written 2, so that the halving  *)
(* in the bounding box is exact on the coordinates used here.              *)
(***************************************************************************)
EXTENDS Integers, Sequences, FiniteSets, TLC

VARIABLES files, build, ndebug, ctx, models, pc, error, lastDraw, faults

vars == <<files, build, ndebug, ctx, models, pc, error, lastDraw, faults>>

(***************************************************************************)
(* Bounds of the model.                                                    *)
(***************************************************************************)
MaxCalls == 2
MaxFaults == 1

(***************************************************************************)
(* Program constants.                                                      *)
(***************************************************************************)
SizeofVertex == 32
SizeofGLuint == 4
IboFactor_gfx == 30

Axes == 1..3
Slots == <<"diffuse", "ambient", "specular", "emissive">>

Max(a, b) == IF a >= b THEN a ELSE b
Min(a, b) == IF a <= b THEN a ELSE b

(***************************************************************************)
(* The graphics context: objs[h] is the object named h (Free when the name *)
(* is unused; a deleted name is free for the next object), bound the       *)
(* binding points, created the number of objects generated since the       *)
(* current LoadModel call began.  call is the LoadModel call that made the *)
(* object.                                                                 *)
(***************************************************************************)
NoBinding == [vao |-> 0, array |-> 0, element |-> 0, program |-> 0]

EmptyContext == [objs |-> <<>>, bound |-> NoBinding, created |-> 0]

Free == [kind |-> "free", call |-> 0, mapped |-> FALSE, size |-> 0, data |-> <<>>]

\* the name the next generated object gets: the lowest unused one
NewName(c) ==
    IF \E i \in 1..Len(c.objs) : c.objs[i] = Free
    THEN CHOOSE i \in 1..Len(c.objs) :
            /\ c.objs[i] = Free
            /\ \A j \in 1..(i - 1) : c.objs[j] # Free
    ELSE Len(c.objs) + 1

glGen(c, kind, call) ==
    LET obj == [kind |-> kind, call |-> call, mapped |-> FALSE, size |-> 0, data |-> <<>>]
        h == NewName(c)
    IN  [c EXCEPT !.objs = IF h > Len(@) THEN Append(@, obj) ELSE [@ EXCEPT ![h] = obj],
                  !.created = @ + 1]

IsLive(c, kind, h) ==
    /\ h \in 1..Len(c.objs)
    /\ c.objs[h].kind = kind

RECURSIVE Trim(_)
Trim(objs) ==
    IF objs # <<>> /\ objs[Len(objs)] = Free
    THEN Trim(SubSeq(objs, 1, Len(objs) - 1))
    ELSE objs

\* glDelete*: a name that is no object of the kind is silently ignored; a
\* deleted object leaves every binding point of the context it was bound to.
glDelete(c, kind, h) ==
    IF IsLive(c, kind, h)
    THEN [c EXCEPT !.objs = Trim([@ EXCEPT ![h] = Free]),
                   !.bound = [t \in DOMAIN @ |-> IF @[t] = h THEN 0 ELSE @[t]]]
    ELSE c

glBind(c, target, h) == [c EXCEPT !.bound[target] = h]

RECURSIVE glDeleteAll(_, _, _)
glDeleteAll(c, kind, hs) ==
    IF hs = <<>> THEN c
    ELSE glDeleteAll(glDelete(c, kind, Head(hs)), kind, Tail(hs))

\* the objects made by a LoadModel call that are still allocated
LiveOf(c, call) ==
    {h \in 1..Len(c.objs) : c.objs[h] # Free /\ c.objs[h].call = call}

(***************************************************************************)
(* The files a caller can name, and what the import library makes of them. *)
(* A raw mesh: vertex positions, normals, the UV channel 0 (<<>> when the  *)
(* mesh has none), its component count, the faces (each a sequence of      *)
(* vertex indices) and the material index.                                 *)
(***************************************************************************)
RawMesh(verts, uv, faces, mat) ==
    [mVertices |-> verts,
     mNormals |-> [i \in 1..Len(verts) |-> <<0, 0, 2>>],
     hasUV |-> uv,
     mTextureCoords |-> IF uv THEN [i \in 1..Len(verts) |-> <<2, 0>>] ELSE <<>>,
     mNumUVComponents |-> 2,
     mFaces |-> faces,
     mMaterialIndex |-> mat]

\* a raw material: per slot the number of textures it reports and their
\* image files (<<slot, index>> names the file of texture `index` of the
\* slot), and per colour key whether the property is present
RawMaterial(counts) ==
    [textureCount |-> counts,
     texturePaths |-> [s \in 1..Len(counts) |-> [j \in 1..counts[s] |-> <<s, j - 1>>]],
     colors |-> << [has |-> TRUE, rgb |-> <<2, 0, 0>>], [has |-> FALSE, rgb |-> <<0, 0, 0>>],
                   [has |-> FALSE, rgb |-> <<0, 0, 0>>], [has |-> FALSE, rgb |-> <<0, 0, 0>>] >>]

BoxVerts == << <<-4, -4, -4>>, <<4, 4, 4>>, <<4, -4, 4>> >>

LidVerts == << <<0, 4, 0>>, <<4, 4, 0>>, <<0, 4, 4>>, <<4, 4, 4>> >>

Files ==
    [missing |-> [exists |-> FALSE, parses |-> FALSE, meshes |-> <<>>, materials |-> <<>>],
     corrupt |-> [exists |-> TRUE, parses |-> FALSE, meshes |-> <<>>, materials |-> <<>>],
     empty   |-> [exists |-> TRUE, parses |-> TRUE, meshes |-> <<>>, materials |-> <<>>],
     box     |-> [exists |-> TRUE, parses |-> TRUE,
                  meshes |-> << RawMesh(BoxVerts, TRUE, << <<0, 1, 2>> >>, 0),
                                RawMesh(LidVerts, FALSE, << <<0, 1, 2>>, <<2, 1, 3>> >>, 1) >>,
                  materials |-> << RawMaterial(<<1, 0, 0, 0>>),
                                   RawMaterial(<<0, 2, 0, 0>>) >>],
     quad    |-> [exists |-> TRUE, parses |-> TRUE,
                  meshes |-> << RawMesh(BoxVerts, TRUE, << <<0, 1, 2, 1>> >>, 0) >>,
                  materials |-> <<>>]]

Paths == DOMAIN files

(***************************************************************************)
(* Shader and program loading (gfx.cpp).  fault names the step the         *)
(* environment lets fail: "create", "source", "compile" or "none".  The    *)
(* data of a shader or program object is its compile or link status and    *)
(* its info log, once it was compiled or linked.                           *)
(***************************************************************************)
ShaderFaults == {"create", "source", "compile"}

\* what the compiler and the linker write into the info log of an object
\* they reject
InfoLog(kind) == IF kind = "shader" THEN "0:1: syntax error" ELSE "main is not defined"

\* glCompileShader / glLinkProgram
glBuild(c, h, rejected) ==
    [c EXCEPT !.objs[h].data =
        IF rejected THEN <<FALSE, InfoLog(c.objs[h].kind)>> ELSE <<TRUE, "">>]

CompileShader(c, handle, rejected) ==
    LET done == glBuild(c, handle, rejected)
    IN  IF ~done.objs[handle].data[1]
        THEN [ctx |-> done, err |-> "shader compile log: " \o done.objs[handle].data[2]]
        ELSE [ctx |-> done, err |-> ""]

LoadShader(c, call, fault) ==
    IF fault = "create"
    THEN [ctx |-> c, err |-> "could not create shader object", handle |-> 0]
    ELSE LET made == glGen(c, "shader", call)
             h == NewName(c)
         IN  IF fault = "source"
             THEN \* LoadShaderSource throws: the native handle is in no owner yet
                  [ctx |-> made, err |-> "could not read shader source file", handle |-> 0]
             ELSE LET compiled == CompileShader(made, h, fault = "compile")
                  IN  IF compiled.err # ""
                      THEN [ctx |-> compiled.ctx, err |-> compiled.err, handle |-> 0]
                      ELSE [ctx |-> compiled.ctx, err |-> "", handle |-> h]

\* LinkProgram without the test of GL_LINK_STATUS
LinkProgram_unchecked(c, handle, rejected) ==
    [ctx |-> glBuild(c, handle, rejected), err |-> ""]

LinkProgram(c, handle, rejected) ==
    LET done == glBuild(c, handle, rejected)
    IN  IF ~done.objs[handle].data[1]
        THEN [ctx |-> done, err |-> "shader link log: " \o done.objs[handle].data[2]]
        ELSE [ctx |-> done, err |-> ""]

ProgramFaults ==
    {"vs.create", "vs.source", "vs.compile", "fs.create", "fs.source", "fs.compile",
     "program.create", "link"}

StageFault(fault, prefix) ==
    CASE fault = prefix \o ".create" -> "create"
      [] fault = prefix \o ".source" -> "source"
      [] fault = prefix \o ".compile" -> "compile"
      [] OTHER -> "none"

LoadProgram(c, call, fault) ==
    LET vs == LoadShader(c, call, StageFault(fault, "vs"))
    IN  IF vs.err # "" THEN [ctx |-> vs.ctx, err |-> vs.err, program |-> 0]
        ELSE
        LET fs == LoadShader(vs.ctx, call, StageFault(fault, "fs"))
        IN  IF fs.err # ""
            THEN \* vs goes out of scope: its deleter runs
                 [ctx |-> glDelete(fs.ctx, "shader", vs.handle), err |-> fs.err, program |-> 0]
            ELSE
            LET dropShaders(x) ==
                    glDelete(glDelete(x, "shader", fs.handle), "shader", vs.handle)
            IN  IF fault = "program.create"
                THEN [ctx |-> dropShaders(fs.ctx),
                      err |-> "could not create shader program", program |-> 0]
                ELSE
                LET made == glGen(fs.ctx, "program", call)
                    p == NewName(fs.ctx)
                    linked == LinkProgram(made, p, fault = "link")
                IN  IF linked.err # ""
                    THEN \* LinkProgram throws: the program handle is in no owner yet
                         [ctx |-> dropShaders(linked.ctx), err |-> linked.err, program |-> 0]
                    ELSE [ctx |-> dropShaders(linked.ctx), err |-> "", program |-> p]

(***************************************************************************)
(* Mesh (src/gfx/mesh.cpp).  QOpenGLBuffer and QOpenGLVertexArrayObject    *)
(* release their native object when destroyed, so a constructor that       *)
(* throws destroys the members that were already created.                  *)
(***************************************************************************)
MeshCtorFaults == {"vbo.create", "ibo.create", "vao.create"}

\* the material reference of a Mesh that refers to no material
NoMaterial == -1

NoMesh == [_vbo |-> 0, _ibo |-> 0, _vao |-> 0, _materialIndex |-> NoMaterial]

\* a constructor whose members are not released when it throws
Mesh_leaking(c, call, fault) ==
    IF fault = "vbo.create"
    THEN [ctx |-> c, err |-> "could not create VBO", mesh |-> NoMesh]
    ELSE
    LET c1 == glGen(c, "buffer", call)
        c2 == glGen(c1, "buffer", call)
    IN  CASE fault = "ibo.create" ->
               [ctx |-> c1, err |-> "could not create IBO", mesh |-> NoMesh]
          [] fault = "vao.create" ->
               [ctx |-> c2, err |-> "could not create VAO", mesh |-> NoMesh]
          [] OTHER ->
               [ctx |-> glGen(c2, "vao", call), err |-> "",
                mesh |-> [_vbo |-> NewName(c), _ibo |-> NewName(c1), _vao |-> NewName(c2),
                          _materialIndex |-> NoMaterial]]

Mesh(c, call, fault) ==
    IF fault = "vbo.create"
    THEN [ctx |-> c, err |-> "could not create VBO", mesh |-> NoMesh]
    ELSE
    LET c1 == glGen(c, "buffer", call)
        vbo == NewName(c)
    IN  IF fault = "ibo.create"
        THEN [ctx |-> glDelete(c1, "buffer", vbo), err |-> "could not create IBO",
              mesh |-> NoMesh]
        ELSE
        LET c2 == glGen(c1, "buffer", call)
            ibo == NewName(c1)
        IN  IF fault = "vao.create"
            THEN [ctx |-> glDelete(glDelete(c2, "buffer", ibo), "buffer", vbo),
                  err |-> "could not create VAO", mesh |-> NoMesh]
            ELSE [ctx |-> glGen(c2, "vao", call), err |-> "",
                  mesh |-> [_vbo |-> vbo, _ibo |-> ibo, _vao |-> NewName(c2),
                            _materialIndex |-> NoMaterial]]

\* ~Mesh: the members release their native objects
DestroyMesh(c, m) ==
    glDelete(glDelete(glDelete(c, "vao", m._vao), "buffer", m._ibo), "buffer", m._vbo)

RECURSIVE DestroyMeshes(_, _)
DestroyMeshes(c, ms) ==
    IF ms = <<>> THEN c ELSE DestroyMeshes(DestroyMesh(c, Head(ms)), Tail(ms))

\* std::vector<Mesh>(n): n default constructions; when the k-th throws, the
\* k-1 meshes already constructed are destroyed.
RECURSIVE MeshVector(_, _, _, _, _, _)
MeshVector(c, call, n, k, fault, done) ==
    IF Len(done) = n THEN [ctx |-> c, err |-> "", meshes |-> done]
    ELSE LET r == Mesh(c, call, IF Len(done) + 1 = k THEN fault ELSE "none")
         IN  IF r.err # ""
             THEN [ctx |-> DestroyMeshes(r.ctx, done), err |-> r.err, meshes |-> <<>>]
             ELSE MeshVector(r.ctx, call, n, k, fault, Append(done, r.mesh))

(***************************************************************************)
(* Geometry building of the bgl loader.  env is what the environment and   *)
(* the build decide for one call of load_meshes:                           *)
(*   fault, at : the step that fails and the mesh it fails for             *)
(*   uninit    : the contents of freshly mapped buffer memory              *)
(*   stray     : what a read past the end of a face's index array yields   *)
(***************************************************************************)
is_textured(mesh) == mesh.hasUV

has_material(mesh) == mesh.mMaterialIndex # 0

FlipV(uv) == <<uv[1], 2 - uv[2]>>

create_vbo(c, vbo, mesh, fault, uninit) ==
    LET n == Len(mesh.mVertices)
        bound == glBind(c, "array", vbo)
        allocated == [bound EXCEPT !.objs[vbo].size = SizeofVertex * n,
                                   !.objs[vbo].data = [i \in 1..n |-> uninit]]
        release(x) == glBind(x, "array", 0)
        unmap(x) == [x EXCEPT !.objs[vbo].mapped = FALSE]
    IN  IF fault = "vbo.map"
        THEN [ctx |-> release(allocated), err |-> "could not map VBO"]
        ELSE
        LET geometry == [allocated EXCEPT
                            !.objs[vbo].mapped = TRUE,
                            !.objs[vbo].data = [i \in 1..n |->
                                [position |-> mesh.mVertices[i],
                                 normal |-> mesh.mNormals[i],
                                 texcoords |-> uninit.texcoords]]]
        IN  IF is_textured(mesh) /\ mesh.mNumUVComponents # 2
            THEN [ctx |-> release(unmap(geometry)),
                  err |-> "only one texture channel supported"]
            ELSE
            LET written ==
                    IF is_textured(mesh)
                    THEN [geometry EXCEPT !.objs[vbo].data = [i \in 1..n |->
                             [@[i] EXCEPT !.texcoords = FlipV(mesh.mTextureCoords[i])]]]
                    ELSE geometry
            IN  IF fault = "vbo.unmap"
                THEN [ctx |-> release(unmap(written)), err |-> "could not unmap VBO"]
                ELSE [ctx |-> release(unmap(written)), err |-> ""]

\* std::copy_n(face.mIndices, 3, buffer): three reads, whatever the face holds
CopyFace(face, stray) == [j \in 1..3 |-> IF j <= Len(face) THEN face[j] ELSE stray]

\* the face loop of create_ibo: the indices written so far, and whether
\* assert() stopped the process
RECURSIVE WriteFaces(_, _, _, _)
WriteFaces(faces, nd, stray, written) ==
    IF faces = <<>> THEN [indices |-> written, aborted |-> FALSE]
    ELSE IF ~nd /\ Len(Head(faces)) # 3
         THEN [indices |-> written, aborted |-> TRUE]
         ELSE WriteFaces(Tail(faces), nd, stray, written \o CopyFace(Head(faces), stray))

create_ibo(c, ibo, mesh, fault, nd, stray) ==
    LET n == Len(mesh.mFaces)
        bound == glBind(c, "element", ibo)
        allocated == [bound EXCEPT !.objs[ibo].size = SizeofGLuint * n * 3,
                                   !.objs[ibo].data = <<>>]
    IN  IF fault = "ibo.map"
        THEN [ctx |-> allocated, err |-> "could not map IBO", aborted |-> FALSE]
        ELSE
        LET w == WriteFaces(mesh.mFaces, nd, stray, <<>>)
            filled == [allocated EXCEPT !.objs[ibo].data = w.indices,
                                        !.objs[ibo].mapped = w.aborted]
        IN  IF w.aborted
            THEN [ctx |-> filled, err |-> "", aborted |-> TRUE]
            ELSE IF fault = "ibo.unmap"
                 THEN [ctx |-> filled, err |-> "could not unmap IBO", aborted |-> FALSE]
                 ELSE [ctx |-> glBind(filled, "element", 0), err |-> "", aborted |-> FALSE]

VertexLayout ==
    << [name |-> "position", components |-> 3, offset |-> 0],
       [name |-> "normal", components |-> 3, offset |-> 12],
       [name |-> "texcoords", components |-> 2, offset |-> 24] >>

create_vao(c, vao, vbo, program) ==
    LET b1 == glBind(c, "program", program)
        b2 == glBind(b1, "vao", vao)
        b3 == glBind(b2, "array", vbo)
        set == [b3 EXCEPT !.objs[vao].data = VertexLayout, !.objs[vao].size = SizeofVertex]
        r1 == glBind(set, "vao", 0)
        r2 == glBind(r1, "array", 0)
    IN  glBind(r2, "program", 0)

GeometryFaults == {"vbo.map", "vbo.unmap", "ibo.map", "ibo.unmap"}

\* the loop of load_meshes from mesh i on
RECURSIVE BuildMeshes(_, _, _, _, _, _, _)
BuildMeshes(c, raw, program, meshes, i, nd, env) ==
    IF i > Len(meshes) THEN [ctx |-> c, err |-> "", meshes |-> meshes, aborted |-> FALSE]
    ELSE
    LET f == IF env.at = i THEN env.fault ELSE "none"
        v == create_vbo(c, meshes[i]._vbo, raw[i], f, env.uninit)
    IN  IF v.err # ""
        THEN [ctx |-> v.ctx, err |-> v.err, meshes |-> meshes, aborted |-> FALSE]
        ELSE
        LET x == create_ibo(v.ctx, meshes[i]._ibo, raw[i], f, nd, env.stray)
        IN  IF x.err # "" \/ x.aborted
            THEN [ctx |-> x.ctx, err |-> x.err, meshes |-> meshes, aborted |-> x.aborted]
            ELSE
            LET a == create_vao(x.ctx, meshes[i]._vao, meshes[i]._vbo, program)
                m == IF has_material(raw[i])
                     THEN [meshes EXCEPT ![i]._materialIndex = raw[i].mMaterialIndex]
                     ELSE meshes
            IN  BuildMeshes(a, raw, program, m, i + 1, nd, env)

load_meshes(c, call, scene, program, nd, env) ==
    IF Len(scene.meshes) = 0
    THEN [ctx |-> c, err |-> "empty model", meshes |-> <<>>, aborted |-> FALSE]
    ELSE
    LET v == MeshVector(c, call, Len(scene.meshes), env.at, env.fault, <<>>)
    IN  IF v.err # ""
        THEN [ctx |-> v.ctx, err |-> v.err, meshes |-> <<>>, aborted |-> FALSE]
        ELSE BuildMeshes(v.ctx, scene.meshes, program, v.meshes, 1, nd, env)

(***************************************************************************)
(* Materials of the bgl loader.  badImage names the slot whose image file  *)
(* cannot be read (0: none) for material badAt.  A QOpenGLTexture built    *)
(* from a null image has no native texture.                                *)
(***************************************************************************)
get_color(material, key) ==
    IF material.colors[key].has THEN material.colors[key].rgb ELSE <<0, 0, 0>>

get_shininess(material) == 0

NoTexture == [present |-> FALSE, handle |-> 0, image |-> <<>>]

\* LoadTexture: the context after it and the shared texture it returns
LoadTexture(c, call, path, imageOk) ==
    IF imageOk
    THEN [ctx |-> glGen(c, "texture", call),
          texture |-> [present |-> TRUE, handle |-> NewName(c), image |-> path]]
    ELSE [ctx |-> c, texture |-> [present |-> TRUE, handle |-> 0, image |-> path]]

\* material.GetTexture(type, 0, &str)
get_path(material, slot) == material.texturePaths[slot][1]

\* get_texture that takes a slot for empty unless it reports one texture
get_texture_single(c, call, material, slot, imageOk) ==
    IF material.textureCount[slot] = 1
    THEN LoadTexture(c, call, get_path(material, slot), imageOk) @@ [warned |-> FALSE]
    ELSE [ctx |-> c, texture |-> NoTexture, warned |-> FALSE]

\* warned: whether the warning about more textures than expected was printed
get_texture(c, call, material, slot, imageOk) ==
    IF material.textureCount[slot] >= 1
    THEN LoadTexture(c, call, get_path(material, slot), imageOk)
            @@ [warned |-> material.textureCount[slot] > 1]
    ELSE [ctx |-> c, texture |-> NoTexture, warned |-> FALSE]

RECURSIVE LoadSlots(_, _, _, _, _, _)
LoadSlots(c, call, material, badImage, textures, warnings) ==
    IF Len(textures) = Len(Slots)
    THEN [ctx |-> c, textures |-> textures, warnings |-> warnings]
    ELSE LET slot == Len(textures) + 1
             t == get_texture(c, call, material, slot, slot # badImage)
         IN  LoadSlots(t.ctx, call, material, badImage, Append(textures, t.texture),
                       warnings + (IF t.warned THEN 1 ELSE 0))

load_material(c, call, material, badImage) ==
    LET t == LoadSlots(c, call, material, badImage, <<>>, 0)
    IN  [ctx |-> t.ctx,
         warnings |-> t.warnings,
         material |-> [diffuse |-> get_color(material, 1),
                       ambient |-> get_color(material, 2),
                       specular |-> get_color(material, 3),
                       emissive |-> get_color(material, 4),
                       shininess |-> get_shininess(material),
                       textures |-> t.textures]]

RECURSIVE load_materials(_, _, _, _, _, _, _)
load_materials(c, call, raw, badAt, badImage, materials, warnings) ==
    IF Len(materials) = Len(raw)
    THEN [ctx |-> c, materials |-> materials, warnings |-> warnings]
    ELSE LET i == Len(materials) + 1
             m == load_material(c, call, raw[i], IF i = badAt THEN badImage ELSE 0)
         IN  load_materials(m.ctx, call, raw, badAt, badImage, Append(materials, m.material),
                            warnings + m.warnings)

RECURSIVE DestroyMaterials(_, _)
DestroyMaterials(c, ms) ==
    IF ms = <<>> THEN c
    ELSE DestroyMaterials(
            glDeleteAll(c, "texture", [i \in 1..Len(Slots) |-> Head(ms).textures[i].handle]),
            Tail(ms))

(***************************************************************************)
(* Bounding box.  The accumulator `bounds` is declared without an          *)
(* initialiser: uninit is what its six floats hold before the loops.       *)
(***************************************************************************)
RECURSIVE AllVertices(_)
AllVertices(meshes) ==
    IF meshes = <<>> THEN <<>> ELSE Head(meshes).mVertices \o AllVertices(Tail(meshes))

RECURSIVE Accumulate(_, _)
Accumulate(bounds, verts) ==
    IF verts = <<>> THEN bounds
    ELSE Accumulate([c \in Axes |-> [min |-> Min(bounds[c].min, Head(verts)[c]),
                                     max |-> Max(bounds[c].max, Head(verts)[c])]],
                    Tail(verts))

\* BoundingBox::getSize
getSize(bounds) == [c \in Axes |-> bounds[c].max - bounds[c].min]

calculate_bounding_box(scene, uninit) ==
    LET bounds == Accumulate(uninit, AllVertices(scene.meshes))
        size == getSize(bounds)
        center == [c \in Axes |-> bounds[c].min + (size[c] \div 2)]
    IN  [center |-> center, size |-> size]

NoBox == [center |-> <<0, 0, 0>>, size |-> <<0, 0, 0>>]

(***************************************************************************)
(* Loading of gfx.cpp.  create_buffer hands out a shared pointer to its    *)
(* own local variable `buffer`: every later read through that pointer,     *)
(* `*vbo`, `*ibo` and the read in the deleter, is a read of a dead stack   *)
(* slot and yields any value.  read is the value such a read yields; a     *)
(* read that yields something else than the name once stored in the slot   *)
(* counts as a fault.                                                      *)
(***************************************************************************)
\* the values a read of a dead stack slot is told apart by: no name, the
\* name of every buffer, and a name that is no buffer's
StrayNames(c) ==
    {0, Len(c.objs) + 1} \cup {h \in 1..Len(c.objs) : c.objs[h].kind = "buffer"}

create_buffer(c, call, fault) ==
    IF fault = "create"
    THEN [ctx |-> c, err |-> "could not create GL buffer", name |-> 0]
    ELSE [ctx |-> glGen(c, "buffer", call), err |-> "", name |-> NewName(c)]

\* the deleter of create_buffer: glDeleteBuffers(1, buffer)
DeleteBuffer(c, read) == glDelete(c, "buffer", read)

\* glBindBuffer: 0 unbinds, a buffer is bound, any other name is an error
\* that leaves the binding as it was
glBindBuffer(c, target, name) ==
    IF name = 0 \/ IsLive(c, "buffer", name) THEN glBind(c, target, name) ELSE c

create_vbo_gfx(c, call, mesh, fault, read, readDel) ==
    LET b == create_buffer(c, call, fault)
    IN  IF b.err # "" THEN [ctx |-> b.ctx, err |-> b.err, vbo |-> 0]
        ELSE
        LET bound == glBindBuffer(b.ctx, "array", read)
            t == bound.bound.array
            n == Len(mesh.mVertices)
        IN  IF t = 0 \/ fault = "map"
            THEN [ctx |-> DeleteBuffer(
                            IF t = 0 THEN bound
                            ELSE [bound EXCEPT !.objs[t].size = SizeofVertex * n,
                                               !.objs[t].data = <<>>],
                            readDel),
                  err |-> "could not create vbo", vbo |-> 0]
            ELSE
            LET written == [bound EXCEPT
                               !.objs[t].size = SizeofVertex * n,
                               !.objs[t].data = [i \in 1..n |->
                                   [position |-> mesh.mVertices[i],
                                    normal |-> mesh.mNormals[i],
                                    texcoords |-> mesh.mTextureCoords[i]]]]
            IN  IF fault = "unmap"
                THEN [ctx |-> DeleteBuffer(written, readDel),
                      err |-> "could not unmap vbo", vbo |-> 0]
                ELSE [ctx |-> written, err |-> "", vbo |-> b.name]

\* the face loop of gfx.cpp's create_ibo: the indices written before the
\* first face that is no triangle, and whether there was one
RECURSIVE WriteFaces_gfx(_, _)
WriteFaces_gfx(faces, written) ==
    IF faces = <<>> THEN [indices |-> written, bad |-> FALSE]
    ELSE IF Len(Head(faces)) = 3
         THEN WriteFaces_gfx(Tail(faces), written \o Head(faces))
         ELSE [indices |-> written, bad |-> TRUE]

create_ibo_gfx(c, call, mesh, fault, read, readDel) ==
    LET b == create_buffer(c, call, fault)
    IN  IF b.err # "" THEN [ctx |-> b.ctx, err |-> b.err, ibo |-> 0]
        ELSE
        LET bound == glBindBuffer(b.ctx, "element", read)
            t == bound.bound.element
            size == SizeofGLuint * Len(mesh.mFaces) * IboFactor_gfx
        IN  IF fault = "bind" \/ ~(read = 0 \/ IsLive(b.ctx, "buffer", read))
            THEN [ctx |-> DeleteBuffer(bound, readDel),
                  err |-> "could not write data to VBO", ibo |-> 0]
            ELSE IF t = 0 \/ fault = "map"
            THEN [ctx |-> DeleteBuffer(
                            IF t = 0 THEN bound
                            ELSE [bound EXCEPT !.objs[t].size = size, !.objs[t].data = <<>>],
                            readDel),
                  err |-> "could not create VBO", ibo |-> 0]
            ELSE
            LET w == WriteFaces_gfx(mesh.mFaces, <<>>)
                written == [bound EXCEPT !.objs[t].size = size, !.objs[t].data = w.indices]
            IN  IF w.bad
                THEN [ctx |-> DeleteBuffer(written, readDel),
                      err |-> "unexpected data", ibo |-> 0]
                ELSE IF fault = "unmap"
                THEN [ctx |-> DeleteBuffer(written, readDel),
                      err |-> "could not write data to VBO", ibo |-> 0]
                ELSE [ctx |-> written, err |-> "", ibo |-> b.name]

\* glGenVertexArrays, and a null pointer returned
create_vao_gfx(c, call) == [ctx |-> glGen(c, "vao", call), vao |-> 0]

create_texture == 0

(***************************************************************************)
(* Models.  models[k] is the Model of the k-th LoadModel call; state is    *)
(* its place in the life cycle, held whether the caller holds it.  mesh is *)
(* the local `mesh` of gfx.cpp's LoadModel, warnings the number of         *)
(* warnings its load printed.  error is the exception of the last call     *)
(* that threw, until the caller calls LoadModel again.                     *)
(***************************************************************************)
NoRawMesh == RawMesh(<<>>, FALSE, <<>>, 0)

NewModel(path) ==
    [path |-> path, state |-> "Unbuilt", held |-> FALSE,
     program |-> 0, meshes |-> <<>>, materials |-> <<>>, boundingBox |-> NoBox,
     vbo |-> 0, ibo |-> 0, vao |-> 0, texture |-> 0, vertex_count |-> 0,
     mesh |-> NoRawMesh, warnings |-> 0]

\* what is left of a model that no longer exists
Gone(state) == [NewModel("") EXCEPT !.state = state]

NoError == [call |-> 0, path |-> "", what |-> ""]

cur == Len(models)

Thrown(what) == [call |-> cur, path |-> models[cur].path, what |-> what]

Scene(m) == files[m.path]

\* faults counts what went wrong so far in the behaviour: the calls the
\* environment let fail and the stray reads; the model allows MaxFaults.
Charge(n) ==
    /\ faults + n <= MaxFaults
    /\ faults' = faults + n

Cost(failed) == IF failed THEN 1 ELSE 0

\* ~Model of the bgl loader: the program, the meshes and the materials go
DestroyModel(c, m) ==
    DestroyMaterials(DestroyMeshes(glDelete(c, "program", m.program), m.meshes),
                     m.materials)

\* the handles a model refers to
Handles(m) ==
    ({m.program, m.vbo, m.ibo, m.vao, m.texture}
       \cup {m.meshes[i]._vbo : i \in 1..Len(m.meshes)}
       \cup {m.meshes[i]._ibo : i \in 1..Len(m.meshes)}
       \cup {m.meshes[i]._vao : i \in 1..Len(m.meshes)}
       \cup {m.materials[i].textures[s].handle :
                i \in 1..Len(m.materials), s \in 1..Len(Slots)}) \ {0}

NoDraw == [model |-> 0, mesh |-> 0, count |-> 0, ok |-> TRUE]

Builds == {"bgl", "gfx"}

Init ==
    /\ files = Files
    /\ build \in Builds
    /\ ndebug \in BOOLEAN
    /\ build = "gfx" => ~ndebug
    /\ ctx = EmptyContext
    /\ models = <<>>
    /\ pc = "idle"
    /\ error = NoError
    /\ lastDraw = NoDraw
    /\ faults = 0

(***************************************************************************)
(* LoadModel of the bgl loader, one action per statement.                  *)
(***************************************************************************)
\* the call begins: const auto model { std::make_shared<Model>() };
LoadModel(path) ==
    /\ build = "bgl"
    /\ pc = "idle"
    /\ Len(models) < MaxCalls
    /\ models' = Append(models, NewModel(path))
    /\ ctx' = [ctx EXCEPT !.created = 0]
    /\ pc' = "importScene"
    /\ error' = NoError
    /\ lastDraw' = NoDraw
    /\ UNCHANGED <<files, build, ndebug, faults>>

\* what aiGetErrorString reports for a file the library could not import
aiGetErrorString(file) ==
    IF ~file.exists THEN "Unable to open file" ELSE "import failed"

\* aiCreatePropertyStore returns a new store: the import library has no path
\* on which it returns null
aiCreatePropertyStore == TRUE

\* importScene with neither the existence check nor the check of the result
importScene_unchecked(file, propsOk) == ""

importScene(file, propsOk) ==
    CASE ~file.exists -> "the file does not exist"
      [] ~propsOk -> aiGetErrorString(file)
      [] ~file.parses -> aiGetErrorString(file)
      [] OTHER -> ""

\* const aiScene &scene { *importScene(path) };
LoadModel_import ==
    /\ build = "bgl"
    /\ pc = "importScene"
    /\ LET e == importScene(Scene(models[cur]), aiCreatePropertyStore)
       IN  /\ error' = IF e # "" THEN Thrown(e) ELSE error
           /\ pc' = IF e # "" THEN "throw" ELSE "LoadProgram"
    /\ models' = [models EXCEPT ![cur].state = "Building"]
    /\ UNCHANGED <<files, build, ndebug, faults, ctx, lastDraw>>

\* model->setProgram(LoadProgram({...}));
\* The overload called here takes a list of paths and is declared in a header
\* that is not among the sources; the routine followed is the LoadProgram of
\* gfx.cpp, the only definition the repository holds.
LoadModel_program ==
    /\ pc = "LoadProgram"
    /\ \E fault \in ProgramFaults \cup {"none"} :
         LET r == LoadProgram(ctx, cur, fault)
         IN  /\ Charge(Cost(fault # "none"))
             /\ ctx' = r.ctx
             /\ models' = [models EXCEPT ![cur].program = r.program]
             /\ error' = IF r.err # "" THEN Thrown(r.err) ELSE error
             /\ pc' = IF r.err # "" THEN "throw" ELSE "load_meshes"
    /\ UNCHANGED <<files, build, ndebug, lastDraw>>

UninitVertex ==
    {[position |-> <<0, 0, 0>>, normal |-> <<0, 0, 0>>, texcoords |-> t] :
        t \in {<<0, 0>>, <<6, 6>>}}

\* what a read past the end of a face's index array yields; nothing is read
\* there when every face holds three indices or more
StrayIndices(meshes) ==
    IF \E i \in 1..Len(meshes) : \E j \in 1..Len(meshes[i].mFaces) :
          Len(meshes[i].mFaces[j]) < 3
    THEN {0, 9} ELSE {0}

MeshEnvs(meshes) ==
    {[fault |-> f, at |-> k, uninit |-> u, stray |-> g] :
        f \in MeshCtorFaults \cup GeometryFaults, k \in 1..Len(meshes),
        u \in UninitVertex, g \in StrayIndices(meshes)}
    \cup {[fault |-> "none", at |-> 0, uninit |-> u, stray |-> g] :
        u \in UninitVertex, g \in StrayIndices(meshes)}

\* load_meshes(*model, scene, *model->getProgram());
LoadModel_meshes ==
    /\ pc = "load_meshes"
    /\ \E env \in MeshEnvs(Scene(models[cur]).meshes) :
         LET r == load_meshes(ctx, cur, Scene(models[cur]), models[cur].program,
                              ndebug, env)
         IN  /\ Charge(Cost(env.fault # "none"))
             /\ ctx' = r.ctx
             /\ models' = [models EXCEPT ![cur].meshes = r.meshes]
             /\ error' = IF r.err # "" THEN Thrown(r.err) ELSE error
             /\ pc' = IF r.aborted THEN "aborted"
                      ELSE IF r.err # "" THEN "throw" ELSE "load_materials"
    /\ UNCHANGED <<files, build, ndebug, lastDraw>>

\* model->setMaterials(load_materials(scene, path.parent_path()));
LoadModel_materials ==
    /\ pc = "load_materials"
    /\ LET raw == Scene(models[cur]).materials
       IN  \E badAt \in 0..Len(raw), badImage \in 0..Len(Slots) :
             /\ (badAt = 0) = (badImage = 0)
             /\ badAt # 0 => raw[badAt].textureCount[badImage] >= 1
             /\ Charge(Cost(badAt # 0))
             /\ LET r == load_materials(ctx, cur, raw, badAt, badImage, <<>>, 0)
                IN  /\ ctx' = r.ctx
                    /\ models' = [models EXCEPT ![cur].materials = r.materials,
                                                ![cur].warnings = r.warnings]
    /\ pc' = "calculate_bounding_box"
    /\ UNCHANGED <<files, build, ndebug, error, lastDraw>>

UninitFloats == {-4, 0, 4}

\* what the accumulator holds before the first vertex: the same leftover
\* value in its six floats
UninitBounds == {[a \in Axes |-> [min |-> g, max |-> g]] : g \in UninitFloats}

\* model->setBoundingBox(calculate_bounding_box(scene));
LoadModel_boundingBox ==
    /\ pc = "calculate_bounding_box"
    /\ \E uninit \in UninitBounds :
         models' = [models EXCEPT
                      ![cur].boundingBox = calculate_bounding_box(Scene(models[cur]), uninit)]
    /\ pc' = "return"
    /\ UNCHANGED <<files, build, ndebug, faults, ctx, error, lastDraw>>

\* return model;
LoadModel_return ==
    /\ build = "bgl"
    /\ pc = "return"
    /\ models' = [models EXCEPT ![cur].state = "Ready", ![cur].held = TRUE]
    /\ pc' = "idle"
    /\ UNCHANGED <<files, build, ndebug, faults, ctx, error, lastDraw>>

\* a LoadModel that catches the exception and returns the model as it is
LoadModel_unwind_returning ==
    /\ build = "bgl"
    /\ pc = "throw"
    /\ models' = [models EXCEPT ![cur].state = "Failed", ![cur].held = TRUE]
    /\ pc' = "idle"
    /\ UNCHANGED <<files, build, ndebug, faults, ctx, error, lastDraw>>

\* an exception leaves LoadModel: the last reference to the model goes
LoadModel_unwind ==
    /\ build = "bgl"
    /\ pc = "throw"
    /\ ctx' = DestroyModel(ctx, models[cur])
    /\ models' = [models EXCEPT ![cur] = Gone("Failed")]
    /\ pc' = "idle"
    /\ UNCHANGED <<files, build, ndebug, faults, error, lastDraw>>

\* the caller drops its reference to a model
ReleaseModel(k) ==
    /\ build = "bgl"
    /\ pc = "idle"
    /\ models[k].held
    /\ ctx' = DestroyModel(ctx, models[k])
    /\ models' = [models EXCEPT ![k] = Gone("Destroyed")]
    /\ lastDraw' = NoDraw
    /\ UNCHANGED <<files, build, ndebug, faults, pc, error>>

(***************************************************************************)
(* Mesh rendering (src/gfx/mesh.cpp).                                      *)
(***************************************************************************)
bind(c, mesh) ==
    glBind(glBind(glBind(c, "vao", mesh._vao), "array", mesh._vbo), "element", mesh._ibo)

release(c, mesh) ==
    glBind(glBind(glBind(c, "vao", 0), "array", 0), "element", 0)

\* render that throws on a draw error without calling release()
render_count_bound(c, mesh, count, drawOk) ==
    LET b == bind(c, mesh)
    IN  IF ~drawOk
        THEN [ctx |-> b, err |-> "glDrawElements() failed", count |-> count]
        ELSE [ctx |-> release(b, mesh), err |-> "", count |-> count]

\* Mesh::render(GLenum mode, GLuint count)
render_count(c, mesh, count, drawOk) ==
    LET b == bind(c, mesh)
    IN  IF ~drawOk
        THEN [ctx |-> release(b, mesh), err |-> "glDrawElements() failed", count |-> count]
        ELSE [ctx |-> release(b, mesh), err |-> "", count |-> count]

\* Mesh::render(GLenum mode)
render(c, mesh, drawOk) ==
    LET b == glBind(c, "element", mesh._ibo)
        size == b.objs[mesh._ibo].size
        r == glBind(b, "element", 0)
    IN  render_count(r, mesh, size \div SizeofGLuint, drawOk)

DrawCounts == {3}

Drawn(k, i, r) ==
    /\ Charge(Cost(r.err # ""))
    /\ ctx' = r.ctx
    /\ lastDraw' = [model |-> k, mesh |-> i, count |-> r.count, ok |-> r.err = ""]
    /\ UNCHANGED <<files, build, ndebug, models, pc, error>>

MeshRender(k, i) ==
    /\ build = "bgl"
    /\ pc = "idle"
    /\ models[k].held
    /\ i \in 1..Len(models[k].meshes)
    /\ \E drawOk \in BOOLEAN : Drawn(k, i, render(ctx, models[k].meshes[i], drawOk))

MeshRenderCount(k, i, count) ==
    /\ build = "bgl"
    /\ pc = "idle"
    /\ models[k].held
    /\ i \in 1..Len(models[k].meshes)
    /\ \E drawOk \in BOOLEAN :
         Drawn(k, i, render_count(ctx, models[k].meshes[i], count, drawOk))

(***************************************************************************)
(* LoadModel and render_model of gfx.cpp.                                  *)
(***************************************************************************)
LoadModel_gfx(path) ==
    /\ build = "gfx"
    /\ pc = "idle"
    /\ Len(models) < MaxCalls
    /\ models' = Append(models, NewModel(path))
    /\ ctx' = [ctx EXCEPT !.created = 0]
    /\ pc' = "aiImportFile"
    /\ error' = NoError
    /\ lastDraw' = NoDraw
    /\ UNCHANGED <<files, build, ndebug, faults>>

\* lines 263-280: the property store, the import, the null check
LoadModel_gfx_import ==
    /\ build = "gfx"
    /\ pc = "aiImportFile"
    /\ LET file == Scene(models[cur])
           e == CASE ~aiCreatePropertyStore -> aiGetErrorString(file)
                  [] ~file.exists \/ ~file.parses -> aiGetErrorString(file)
                  [] OTHER -> ""
       IN  /\ error' = IF e # "" THEN Thrown(e) ELSE error
           /\ pc' = IF e # "" THEN "throw" ELSE "mMeshes"
    /\ models' = [models EXCEPT ![cur].state = "Building"]
    /\ UNCHANGED <<files, build, ndebug, faults, ctx, lastDraw>>

\* what a read through a mesh pointer that was never set can find
StrayMeshes == {RawMesh(BoxVerts, TRUE, << <<0, 1, 2>> >>, 0)}

\* const aiMesh &mesh = *scene->mMeshes[0];  with no mesh in the scene the
\* pointer read is out of bounds: the process stops, or goes on with whatever
\* the memory holds
LoadModel_gfx_mesh ==
    /\ pc = "mMeshes"
    /\ LET meshes == Scene(models[cur]).meshes
       IN  IF meshes # <<>>
           THEN /\ models' = [models EXCEPT ![cur].mesh = meshes[1]]
                /\ pc' = "create_vbo"
           ELSE \/ /\ pc' = "crashed"
                   /\ models' = models
                \/ \E stray \in StrayMeshes :
                     /\ models' = [models EXCEPT ![cur].mesh = stray]
                     /\ pc' = "create_vbo"
    /\ UNCHANGED <<files, build, ndebug, faults, ctx, error, lastDraw>>

BufferFaults == {"create", "map", "unmap"}

\* the reads of dead stack slots an action may see: `stored` is the name the
\* slot held when it died
Reads(c, stored, budget) == IF budget > 0 THEN StrayNames(c) \cup {stored} ELSE {stored}

Stray(read, stored) == IF read # stored THEN 1 ELSE 0

\* whether the error left the function after its buffer was created, so that
\* the deleter ran
DeleterRan(r) == r.err # "" /\ r.err # "could not create GL buffer"

\* const auto vbo = create_vbo(mesh);
LoadModel_gfx_vbo ==
    /\ pc = "create_vbo"
    /\ \E fault \in BufferFaults \cup {"none"},
          read \in Reads(ctx, NewName(ctx), MaxFaults - faults),
          readDel \in Reads(ctx, NewName(ctx), MaxFaults - faults) :
         LET r == create_vbo_gfx(ctx, cur, models[cur].mesh, fault, read, readDel)
             made == NewName(ctx)
             used == (IF fault # "create" THEN Stray(read, made) ELSE 0)
                     + (IF DeleterRan(r) THEN Stray(readDel, made) ELSE 0)
                     + Cost(fault # "none")
         IN  /\ fault = "create" => read = made
             /\ ~DeleterRan(r) => readDel = made
             /\ Charge(used)
             /\ ctx' = r.ctx
             /\ models' = [models EXCEPT ![cur].vbo = r.vbo]
             /\ error' = IF r.err # "" THEN Thrown(r.err) ELSE error
             /\ pc' = IF r.err # "" THEN "throw" ELSE "create_ibo"
    /\ UNCHANGED <<files, build, ndebug, lastDraw>>

\* const auto ibo = create_ibo(mesh);
LoadModel_gfx_ibo ==
    /\ pc = "create_ibo"
    /\ \E fault \in BufferFaults \cup {"bind", "none"},
          read \in Reads(ctx, NewName(ctx), MaxFaults - faults),
          readDel \in Reads(ctx, NewName(ctx), MaxFaults - faults) :
         LET r == create_ibo_gfx(ctx, cur, models[cur].mesh, fault, read, readDel)
             made == NewName(ctx)
             used == (IF fault # "create" THEN Stray(read, made) ELSE 0)
                     + (IF DeleterRan(r) THEN Stray(readDel, made) ELSE 0)
                     + Cost(fault # "none")
         IN  /\ fault = "create" => read = made
             /\ ~DeleterRan(r) => readDel = made
             /\ Charge(used)
             /\ ctx' = r.ctx
             /\ models' = [models EXCEPT ![cur].ibo = r.ibo]
             /\ error' = IF r.err # "" THEN Thrown(r.err) ELSE error
             /\ pc' = IF r.err # "" THEN "throw" ELSE "make_shared"
    /\ UNCHANGED <<files, build, ndebug, lastDraw>>

\* return std::make_shared<Model>(Model { ... });
LoadModel_gfx_return ==
    /\ build = "gfx"
    /\ pc = "make_shared"
    /\ LET v == create_vao_gfx(ctx, cur)
       IN  /\ ctx' = v.ctx
           /\ models' = [models EXCEPT
                           ![cur].vao = v.vao,
                           ![cur].texture = create_texture,
                           ![cur].vertex_count = Len(models[cur].mesh.mVertices),
                           ![cur].state = "Ready",
                           ![cur].held = TRUE]
    /\ pc' = "idle"
    /\ UNCHANGED <<files, build, ndebug, faults, error, lastDraw>>

\* the shared pointers a model or a frame of LoadModel holds go: for each
\* that is set, the deleter reads its dead stack slot
DropBuffers(c, m, readIbo, readVbo) ==
    LET c1 == IF m.ibo # 0 THEN DeleteBuffer(c, readIbo) ELSE c
    IN  IF m.vbo # 0 THEN DeleteBuffer(c1, readVbo) ELSE c1

Dropped(m) ==
    \E readIbo \in Reads(ctx, m.ibo, MaxFaults - faults),
       readVbo \in Reads(ctx, m.vbo, MaxFaults - faults) :
         LET used == Stray(readIbo, m.ibo) + Stray(readVbo, m.vbo)
         IN  /\ m.ibo = 0 => readIbo = 0
             /\ m.vbo = 0 => readVbo = 0
             /\ Charge(used)
             /\ ctx' = DropBuffers(ctx, m, readIbo, readVbo)

\* an exception leaves LoadModel: its locals vbo and ibo go
LoadModel_gfx_unwind ==
    /\ build = "gfx"
    /\ pc = "throw"
    /\ Dropped(models[cur])
    /\ models' = [models EXCEPT ![cur] = Gone("Failed")]
    /\ pc' = "idle"
    /\ UNCHANGED <<files, build, ndebug, error, lastDraw>>

ReleaseModel_gfx(k) ==
    /\ build = "gfx"
    /\ pc = "idle"
    /\ models[k].held
    /\ Dropped(models[k])
    /\ models' = [models EXCEPT ![k] = Gone("Destroyed")]
    /\ lastDraw' = NoDraw
    /\ UNCHANGED <<files, build, ndebug, pc, error>>

\* render_model: model->program was never set, so *model->program reads
\* through a null pointer: the process stops, or goes on with whatever name
\* the read yields
render_model(k) ==
    /\ build = "gfx"
    /\ pc = "idle"
    /\ models[k].held
    /\ \/ /\ pc' = "crashed"
          /\ UNCHANGED <<ctx, lastDraw>>
       \/ \E read \in StrayNames(ctx) :
            /\ ctx' = IF IsLive(ctx, "program", read)
                      THEN glBind(ctx, "program", read) ELSE ctx
            /\ lastDraw' = [model |-> k, mesh |-> 0,
                            count |-> models[k].vertex_count * 3, ok |-> TRUE]
            /\ pc' = pc
    /\ UNCHANGED <<files, build, ndebug, faults, models, error>>

Next ==
    \/ \E path \in Paths : LoadModel(path)
    \/ LoadModel_import
    \/ LoadModel_program
    \/ LoadModel_meshes
    \/ LoadModel_materials
    \/ LoadModel_boundingBox
    \/ LoadModel_return
    \/ LoadModel_unwind
    \/ \E k \in 1..Len(models) : ReleaseModel(k)
    \/ \E k \in 1..Len(models), i \in 1..2 : MeshRender(k, i)
    \/ \E k \in 1..Len(models), i \in 1..2, count \in DrawCounts : MeshRenderCount(k, i, count)
    \/ \E path \in Paths : LoadModel_gfx(path)
    \/ LoadModel_gfx_import
    \/ LoadModel_gfx_mesh
    \/ LoadModel_gfx_vbo
    \/ LoadModel_gfx_ibo
    \/ LoadModel_gfx_return
    \/ LoadModel_gfx_unwind
    \/ \E k \in 1..Len(models) : ReleaseModel_gfx(k)
    \/ \E k \in 1..Len(models) : render_model(k)

Spec == Init /\ [][Next]_vars

(***************************************************************************)
(* Properties.                                                             *)
(***************************************************************************)
\* the paths that name no file
Missing == {p \in Paths : ~files[p].exists}

\* the paths of the files that parse to a scene without a mesh
Meshless == {p \in Paths : files[p].parses /\ files[p].meshes = <<>>}

\* a LoadModel call has ended with an error that reached the caller
Failed == pc = "idle" /\ error # NoError

\* C1: once an error has propagated out of LoadModel, whatever the step that
\* failed, the call has returned no Model and none of the GPU resources it
\* created is still allocated.
C1_FailedLoadLeavesNothing ==
    Failed =>
        /\ ~models[error.call].held
        /\ LiveOf(ctx, error.call) = {}

\* C2: a LoadModel call on a path that names no file fails with the
\* file-not-found error of its loader (importScene's own message in the bgl
\* loader, the import library's in gfx.cpp), never gets past the import, and
\* at no point of the call has a GPU resource been created.
C2_MissingPathFails ==
    /\ \A k \in 1..Len(models) :
          models[k].path \in Missing =>
              /\ k = cur
              /\ pc \in {"importScene", "aiImportFile", "throw"}
              /\ ~models[k].held
              /\ ctx.created = 0
    /\ (error # NoError /\ error.path \in Missing) =>
          /\ error.what = IF build = "bgl" THEN "the file does not exist"
                          ELSE "Unable to open file"
          /\ ~models[error.call].held
          /\ ctx.created = 0

\* a call on a missing path has failed and its error has reached the caller
C2_Witness == Failed /\ error.path \in Missing /\ build = "bgl"

\* C3: a LoadModel call on a parsed scene without meshes fails with the
\* empty-scene error: the process goes on, no mesh is read from the scene and
\* no Model is returned.
C3_EmptySceneRejected ==
    /\ \A k \in 1..Len(models) :
          models[k].path \in Meshless =>
              /\ pc # "crashed"
              /\ models[k].mesh = NoRawMesh
              /\ ~models[k].held
    /\ (error # NoError /\ error.path \in Meshless) => error.what = "empty model"

\* the paths of the files with a mesh that has a face of other than three
\* indices
NonTriangle ==
    {p \in Paths : \E i \in 1..Len(files[p].meshes) :
                     \E j \in 1..Len(files[p].meshes[i].mFaces) :
                        Len(files[p].meshes[i].mFaces[j]) # 3}

\* C4: index-buffer creation for a mesh with a face of other than three
\* indices ends with an error in every build configuration: it neither stops
\* the process nor succeeds, so the load never gets past it and no Model of
\* such a scene is returned.
C4_NonTriangleRejected ==
    \A k \in 1..Len(models) :
        models[k].path \in NonTriangle =>
            /\ pc \notin {"aborted", "load_materials", "calculate_bounding_box",
                          "return", "make_shared"}
            /\ ~models[k].held

\* the errors of Mesh::Mesh
MeshCtorErrors == {"could not create VBO", "could not create IBO", "could not create VAO"}

\* C5: when the constructor of a Mesh throws, because the index buffer or
\* the vertex array could not be created after earlier members were, the
\* objects of the context are the same after the failed construction as
\* before it: every buffer already created has been released.
C5_MeshCtorReleasesBuffers ==
    [][(pc = "load_meshes" /\ pc' = "throw" /\ error'.what \in MeshCtorErrors)
          => ctx'.objs = ctx.objs]_vars

\* the vertex array of the second mesh could not be created
C5_Witness ==
    /\ pc = "throw"
    /\ error.what = "could not create VAO"
    /\ ctx.created = 8

\* C6: the handles of a Model the caller holds are objects of the context
\* made by that Model's own LoadModel call, whatever happened to other
\* Models, and two Models the caller holds share no handle.
C6_ModelsDisjoint ==
    \A j, k \in 1..Len(models) :
        models[j].held =>
            /\ \A h \in Handles(models[j]) :
                  /\ h \in 1..Len(ctx.objs)
                  /\ ctx.objs[h] # Free
                  /\ ctx.objs[h].call = j
            /\ (k # j /\ models[k].held) =>
                  Handles(models[j]) \cap Handles(models[k]) = {}

\* the objects of the context
Live == {h \in 1..Len(ctx.objs) : ctx.objs[h] # Free}

\* C7: between LoadModel calls the objects of the context are exactly the
\* handles of the Models the caller holds: none was left behind by a Model
\* that is gone or by a failed call, and none was released while its Model
\* still exists.
C7_ReleasedExactlyOnce ==
    pc = "idle" =>
        Live = UNION {Handles(models[k]) : k \in {j \in 1..Len(models) : models[j].held}}

\* the bindings a mesh render call makes
MeshTargets == {"vao", "array", "element"}

\* C8: a render call, whether it returns or raises a draw error, leaves the
\* vertex array, vertex buffer and index buffer bindings of the context as
\* they were before the call; after a render call of a Mesh none of the
\* three is bound.
C8_RenderRestoresBindings ==
    [][(lastDraw' # lastDraw /\ lastDraw' # NoDraw)
          => \A t \in MeshTargets :
                /\ ctx'.bound[t] = ctx.bound[t]
                /\ lastDraw'.mesh # 0 => ctx'.bound[t] = 0]_vars

\* a render call has raised a draw error
C8_Witness == lastDraw # NoDraw /\ ~lastDraw.ok

\* the steps of a Model's life cycle
Lifecycle ==
    {<<"Unbuilt", "Building">>, <<"Building", "Ready">>, <<"Building", "Failed">>,
     <<"Ready", "Destroyed">>}

\* C9: a Model goes Unbuilt -> Building -> Ready or Unbuilt -> Building ->
\* Failed and never leaves Failed; the caller holds only Models that are
\* Ready, and every render call is made on such a Model.
C9_Lifecycle ==
    /\ [](\A k \in 1..Len(models) :
            /\ models[k].held => models[k].state = "Ready"
            /\ lastDraw.model = k => models[k].held)
    /\ [][/\ Len(models') >= Len(models)
          /\ \A k \in 1..Len(models') :
               IF k > Len(models) THEN models'[k].state = "Unbuilt"
               ELSE \/ models'[k].state = models[k].state
                    \/ <<models[k].state, models'[k].state>> \in Lifecycle]_vars

\* one call has failed, and the Model of another has been rendered
C9_Witness ==
    /\ \E k \in 1..Len(models) : models[k].state = "Failed"
    /\ lastDraw.model # 0
    /\ models[lastDraw.model].state = "Ready"

(***************************************************************************)
(* The bounding box over scenes drawn from a bounded set: one mesh of two  *)
(* vertices, which span the box, or one mesh without a vertex.            *)
(* <<-2, -2, -2>> and <<2, 2, 2>> are the corners of the cube [-1, 1] on   *)
(* every axis.                                                             *)
(***************************************************************************)
Points == {<<-2, -2, -2>>, <<2, 2, 2>>, <<6, 6, 6>>, <<2, -2, 6>>}

BBFiles ==
    {[scene |-> [exists |-> TRUE, parses |-> TRUE,
                 meshes |-> << RawMesh(<<p, q>>, FALSE, << >>, 0) >>,
                 materials |-> << >>]] : p \in Points, q \in Points}
    \cup {[scene |-> [exists |-> TRUE, parses |-> TRUE,
                      meshes |-> << RawMesh(<< >>, FALSE, << >>, 0) >>,
                      materials |-> << >>]]}

InitBB ==
    /\ files \in BBFiles
    /\ build = "bgl"
    /\ ndebug \in BOOLEAN
    /\ ctx = EmptyContext
    /\ models = <<>>
    /\ pc = "idle"
    /\ error = NoError
    /\ lastDraw = NoDraw
    /\ faults = 0

NextBB ==
    \/ \E path \in Paths : LoadModel(path)
    \/ LoadModel_import
    \/ LoadModel_program
    \/ LoadModel_meshes
    \/ LoadModel_materials
    \/ LoadModel_boundingBox
    \/ LoadModel_return
    \/ LoadModel_unwind

SpecBB == InitBB /\ [][NextBB]_vars

\* the smallest and the largest coordinate of the vertices on an axis
Lowest(verts, c) ==
    CHOOSE x \in {verts[i][c] : i \in 1..Len(verts)} :
        \A i \in 1..Len(verts) : x <= verts[i][c]

Highest(verts, c) ==
    CHOOSE x \in {verts[i][c] : i \in 1..Len(verts)} :
        \A i \in 1..Len(verts) : x >= verts[i][c]

\* C10: the bounding box LoadModel computed for a scene with a vertex has,
\* on every axis, size = largest - smallest coordinate of the vertices of all
\* meshes and center = smallest + size / 2, wherever the vertices lie.
C10_BoundingBox ==
    \A k \in 1..Len(models) :
        ((k = cur /\ pc = "return") \/ models[k].held) =>
            LET verts == AllVertices(Scene(models[k]).meshes)
                box == models[k].boundingBox
            IN  verts # <<>> =>
                  \A c \in Axes :
                    /\ box.size[c] = Highest(verts, c) - Lowest(verts, c)
                    /\ box.center[c] = Lowest(verts, c) + (box.size[c] \div 2)

\* the paths of the files whose scene has meshes, and no vertex in any
Vertexless ==
    {p \in Paths : files[p].meshes # <<>> /\ AllVertices(files[p].meshes) = <<>>}

\* C11: a LoadModel call on a scene whose meshes hold no vertex at all
\* fails in the bounding-box calculation: the call never gets past it with a
\* bounding box, and no Model of such a scene is returned.
C11_ZeroVerticesRejected ==
    \A k \in 1..Len(models) :
        models[k].path \in Vertexless =>
            /\ ~(k = cur /\ pc = "return")
            /\ ~models[k].held

\* the calls whose geometry is built: the Models the caller holds, and the
\* call of the bgl loader that has got past load_meshes
Built ==
    {k \in 1..Len(models) :
        \/ models[k].held
        \/ k = cur /\ pc \in {"load_materials", "calculate_bounding_box", "return"}}

\* the vertex buffers of a built call, each with the raw mesh it was built from
VertexBuffers(k) ==
    IF build = "bgl"
    THEN {[raw |-> Scene(models[k]).meshes[i], vbo |-> models[k].meshes[i]._vbo] :
             i \in 1..Len(models[k].meshes)}
    ELSE {[raw |-> Scene(models[k]).meshes[i], vbo |-> models[k].vbo] :
             i \in 1..Min(1, Len(Scene(models[k]).meshes))}

\* C12: the vertex buffer built from a mesh with N vertices holds N records;
\* record i has the position and the normal of vertex i of the mesh, and the
\* texture coordinates (0, 0) when the mesh has no UV channel 0.
C12_VertexRecords ==
    \A k \in Built : \A b \in VertexBuffers(k) :
        /\ IsLive(ctx, "buffer", b.vbo)
        /\ LET data == ctx.objs[b.vbo].data
           IN  /\ Len(data) = Len(b.raw.mVertices)
               /\ \A v \in 1..Len(data) :
                     /\ data[v].position = b.raw.mVertices[v]
                     /\ data[v].normal = b.raw.mNormals[v]
                     /\ ~is_textured(b.raw) => data[v].texcoords = <<0, 0>>

\* the calls of the bgl loader whose materials are loaded
WithMaterials ==
    {k \in 1..Len(models) :
        /\ build = "bgl"
        /\ \/ models[k].held
           \/ k = cur /\ pc \in {"calculate_bounding_box", "return"}}

\* the slots of a scene's materials that report more than one texture
Crowded(raw) ==
    {<<i, s>> \in (1..Len(raw)) \X (1..Len(Slots)) : raw[i].textureCount[s] > 1}

\* C13: every material of the scene is loaded, whatever the number of
\* textures its slots report: the step that loads the materials always goes
\* on to the bounding box.  A slot of a loaded material is absent exactly
\* when the raw material reports no texture for it, otherwise it holds the
\* texture of index 0; one warning is printed for every slot that reports
\* more than one texture.
C13_TextureSlots ==
    /\ [](\A k \in WithMaterials :
            LET raw == Scene(models[k]).materials
                loaded == models[k].materials
            IN  /\ Len(loaded) = Len(raw)
                /\ \A i \in 1..Len(raw), s \in 1..Len(Slots) :
                      LET t == loaded[i].textures[s]
                      IN  /\ t.present = (raw[i].textureCount[s] # 0)
                          /\ t.present => t.image = raw[i].texturePaths[s][1]
                /\ models[k].warnings = Cardinality(Crowded(raw)))
    /\ [][pc = "load_materials" => pc' = "calculate_bounding_box"]_vars

\* a Model is held whose materials have a slot with two textures, a slot
\* with one and a slot with none
C13_Witness ==
    \E k \in WithMaterials :
        /\ models[k].held
        /\ models[k].warnings = 1
        /\ \E i \in 1..Len(models[k].materials), s \in 1..Len(Slots) :
              /\ Scene(models[k]).materials[i].textureCount[s] = 2
              /\ models[k].materials[i].textures[s].image = <<s, 0>>
              /\ models[k].materials[i].textures[s].handle # 0
        /\ \E i \in 1..Len(models[k].materials), s \in 1..Len(Slots) :
              ~models[k].materials[i].textures[s].present

\* C14: a material whose texture image could not be loaded is never
\* returned: every texture a loaded material holds in a slot was built from
\* an image and has its native texture.
C14_TextureLoadFails ==
    \A k \in WithMaterials :
        \A i \in 1..Len(models[k].materials), s \in 1..Len(Slots) :
            LET t == models[k].materials[i].textures[s]
            IN  t.present => IsLive(ctx, "texture", t.handle)

\* the shaders the compiler rejected and the programs the linker rejected
Rejected ==
    {h \in Live : /\ ctx.objs[h].kind \in {"shader", "program"}
                  /\ ctx.objs[h].data # <<>>
                  /\ ~ctx.objs[h].data[1]}

\* C15: the call that had a shader rejected by the compiler, or a program
\* rejected by the linker, fails with the compile error or the link error,
\* whose message carries the info log of the rejected object, and has handed
\* out no program: its Model holds none and never reaches the caller.
C15_RejectedBuildFails ==
    \A h \in Rejected :
        LET k == ctx.objs[h].call
            prefix == IF ctx.objs[h].kind = "shader" THEN "shader compile log: "
                      ELSE "shader link log: "
        IN  /\ models[k].program = 0
            /\ ~models[k].held
            /\ models[k].state \in {"Building", "Failed"}
            /\ k = cur => /\ pc \in {"throw", "idle"}
                          /\ error.call = k
                          /\ error.what = prefix \o ctx.objs[h].data[2]

\* the linker has rejected the program of a call, and the error has reached
\* the caller
C15_Witness ==
    /\ Failed
    /\ \E h \in Rejected : ctx.objs[h].kind = "program" /\ ctx.objs[h].call = error.call

\* C16: whenever buffer creation has been left, by its return or by an
\* error that propagates, no buffer of the context is mapped and none is
\* bound to the vertex or to the index binding point.
C16_BuffersUnmappedUnbound ==
    pc # "aborted" =>
        /\ ctx.bound.array = 0
        /\ ctx.bound.element = 0
        /\ \A h \in Live : ~ctx.objs[h].mapped

\* the errors of the import stage: the file is missing, the import library
\* rejects it, or its scene has no mesh
ImportErrors ==
    {"the file does not exist", "Unable to open file", "import failed", "empty model"}

\* C17: a LoadModel call that fails in the import stage, the check for an
\* empty scene included, has created no GPU resource when it fails.
C17_ImportBeforeAllocation ==
    (error # NoError /\ error.what \in ImportErrors) => ctx.created = 0

\* the errors of LoadShader and LoadProgram raised after a shader or program
\* object was created
AfterShaderCreation ==
    {"could not read shader source file", "could not create shader object",
     "could not create shader program",
     "shader compile log: " \o InfoLog("shader"),
     "shader link log: " \o InfoLog("program")}

\* C18: when loading the program fails after a shader or program object
\* was created, the error propagates with none of the shader and program
\* objects of that call left in the context.
C18_ShaderObjectsDeleted ==
    (pc = "throw" /\ error.what \in AfterShaderCreation) =>
        \A h \in LiveOf(ctx, cur) : ctx.objs[h].kind \notin {"shader", "program"}

\* the index buffers of a built call, each with the raw mesh it was built from
IndexBuffers(k) ==
    IF build = "bgl"
    THEN {[raw |-> Scene(models[k]).meshes[i], ibo |-> models[k].meshes[i]._ibo] :
             i \in 1..Len(models[k].meshes)}
    ELSE {[raw |-> models[k].mesh, ibo |-> models[k].ibo]}

\* the raw mesh the last draw call was issued for
DrawnMesh ==
    IF lastDraw.mesh = 0 THEN models[lastDraw.model].mesh
    ELSE Scene(models[lastDraw.model]).meshes[lastDraw.mesh]

\* C19: the index buffer built from a mesh with F faces holds 3 * F indices
\* and no room for more, and a draw call issued for the mesh draws 3 * F
\* indices.
C19_IndexCount ==
    /\ \A k \in Built : \A b \in IndexBuffers(k) :
          /\ IsLive(ctx, "buffer", b.ibo)
          /\ Len(ctx.objs[b.ibo].data) = 3 * Len(b.raw.mFaces)
          /\ ctx.objs[b.ibo].size = SizeofGLuint * 3 * Len(b.raw.mFaces)
    /\ lastDraw # NoDraw => lastDraw.count = 3 * Len(DrawnMesh.mFaces)

\* the calls of the bgl loader whose meshes are built
WithMeshes == {k \in Built : build = "bgl"}

\* C20: every built Mesh refers to the material its raw mesh names: its
\* material index is the raw mesh's material index, index 0 included.
C20_MaterialIndex ==
    \A k \in WithMeshes : \A i \in 1..Len(models[k].meshes) :
        models[k].meshes[i]._materialIndex = Scene(models[k]).meshes[i].mMaterialIndex

====
